---- MODULE Spec2Model ----
(***************************************************************************)
(* Model of node-selection (src/src/lib.rs): get_selection_text, the       *)
(* save / clear / copy / poll / restore protocol over the OS clipboard,    *)
(* and copy, the synthetic Ctrl+C (Cmd+C on macOS) key chord.              *)
(*                                                                         *)
(* Time is counted in milliseconds.  thread::sleep(1 ms) advances the      *)
(* clock of the calling world by one tick; every other statement takes no  *)
(* time.  The target application answers the copy chord by writing its     *)
(* selection to the clipboard at any later moment, or never.               *)
(***************************************************************************)
EXTENDS Integers, Sequences, FiniteSets, TLC

\* ------------------------------------------------------------------ bounds
MaxTimeOut == 3
MaxFaults == 1

\* ------------------------------------------------------- program constants
DEFAULT_TIME_OUT_MS == 80
DocumentedDefaultMs == 80
SLEEP_MS == 1

Calls == {1, 2}
Worlds == {1, 2}

\* Option<T>: None is the empty sequence, Some(x) the one-element sequence.
None == <<>>
Some(x) == <<x>>
IsSome(o) == Len(o) > 0

unwrap_or(o, d) == IF IsSome(o) THEN o[1] ELSE d

\* ImageData { width: 0, height: 0, bytes: [] }, the placeholder of line 47.
EmptyImage == [width |-> 0, height |-> 0, bytes |-> <<>>]
Image1 == [width |-> 1, height |-> 1, bytes |-> <<255, 0, 0, 255>>]
Image2 == [width |-> 2, height |-> 1, bytes |-> <<0, 0, 0, 255, 9, 9, 9, 255>>]
Images == {Image1, Image2}
ClipTexts == {"T"}
Selections == {"S"}

\* ------------------------------------------------ the clipboard service
\* Clipboard contents: an optional text and an optional image.
EmptyClip == [text |-> None, image |-> None]
ClipStates ==
    {[text |-> t, image |-> g] :
        t \in {None} \cup {Some(x) : x \in ClipTexts},
        g \in {None} \cup {Some(x) : x \in Images}}

\* Clipboard::get_text(): Err when the service fails or holds no text.
get_text(cb, ok) == IF ok /\ IsSome(cb.text) THEN cb.text ELSE None
\* Clipboard::get_image(): Err when the service fails or holds no image.
get_image(cb, ok) == IF ok /\ IsSome(cb.image) THEN cb.image ELSE None
\* Clipboard::set_text replaces the whole contents by the text.
set_text(cb, s) == [text |-> Some(s), image |-> None]
\* Clipboard::set_image replaces the whole contents by the image.
set_image(cb, g) == [text |-> None, image |-> Some(g)]
clear_m(cb) == cb
\* Clipboard::clear empties the clipboard.
clear(cb) == EmptyClip

TimeOutInputs == {None} \cup {Some(t) : t \in 0..MaxTimeOut}

VARIABLES
    pc,                  \* per call: the statement the call is at
    time_out_ms,         \* per call: argument, Option<u32>
    print_time_to_copy,  \* per call: argument, Option<bool>
    clipboard_text,      \* per call: text saved in step 1
    clipboard_image,     \* per call: image saved in step 1
    start_time,          \* per call: Instant::now() of line 57
    time_out_ms_in_u128, \* per call: the resolved timeout of line 58
    selection_text,      \* per call: the local of line 59
    ret,                 \* per call: returned string, None until return
    ops,                 \* per call: history of clipboard operations
    events,              \* per call: history of injected key events
    stdout,              \* per call: lines printed (elapsed ms)
    world,               \* per call: the desktop session it runs in
    clip,                \* per world: clipboard contents
    pre,                 \* per world: clipboard contents before any call
    sel,                 \* per world: the target application's selection
    pending,             \* per world: copy chord received, not yet answered
    landing,             \* per world: when the application's copy landed
    now,                 \* per world: wall clock in ms
    platform,            \* "macos" or "other" (cfg(target_os))
    faults,              \* per call: the steps at which an operation failed
    budget,              \* failures the environment may inject
    fn,                  \* per call: the exported function that was called
    path                 \* per call: history of the statements executed

callVars == <<time_out_ms, print_time_to_copy, clipboard_text, clipboard_image,
              start_time, time_out_ms_in_u128, selection_text, ret, stdout>>
envVars == <<world, pre, sel, platform, budget, fn>>
vars == <<pc, callVars, ops, events, envVars, clip, pending, landing, now,
          faults, path>>

W(i) == world[i]
elapsed(i) == now[W(i)] - start_time[i]

\* An operation of the environment may fail while the fault budget lasts.
Injected == Len(faults[1]) + Len(faults[2])
Outcomes == IF Injected < budget THEN {TRUE, FALSE} ELSE {TRUE}
Spend(i, ok) ==
    faults' = [faults EXCEPT ![i] = IF ok THEN @ ELSE Append(@, pc[i])]

Goto(i, l) ==
    /\ pc' = [pc EXCEPT ![i] = l]
    /\ path' = [path EXCEPT ![i] = Append(@, pc[i])]
unwrap_m(i, ok, l) == Goto(i, l)
unwrap_m2(i, ok, l) == Goto(i, IF ok THEN l ELSE pc[i])
\* Result::unwrap(): continue on Ok, panic on Err.
unwrap(i, ok, l) == Goto(i, IF ok THEN l ELSE "panicked")
Log(i, o, ok, v) ==
    ops' = [ops EXCEPT ![i] = Append(@, [op |-> o, ok |-> ok, val |-> v])]
Post(i, es) == events' = [events EXCEPT ![i] = @ \o es]
Key(k, d, f) == [key |-> k, dir |-> d, flags |-> f]
Click_m(k) == <<Key(k, "Release", "Source"), Key(k, "Press", "Source")>>
\* Direction::Click of line 148: a press followed by a release.
Click(k) == <<Key(k, "Press", "Source"), Key(k, "Release", "Source")>>
\* The Enigo value of line 146 goes out of scope when _copy unwinds; the
\* library may then release the keys still held, or fail to.
Dropped(held) == {<<>>} \cup {<<Key(k, "Release", "Source")>> : k \in held}
\* copy() returns to its caller: line 53 of get_selection_text, or the
\* host runtime when copy was called on its own (lines 98-101).
after_copy(i) == IF fn[i] = "copy" THEN "copied" ELSE "start"

\* The first statement of _copy on the platform the crate was built for.
copy_entry == IF platform = "macos" THEN "event_source" ELSE "enigo_new"

\* ---------------------------------------------------- get_selection_text
\* line 41: Clipboard::new().unwrap()
ClipboardNew(i) ==
    /\ pc[i] = "clipboard_new"
    /\ \E ok \in Outcomes :
        /\ Spend(i, ok)
        /\ unwrap(i, ok, "save_text")
    /\ UNCHANGED <<callVars, ops, events, envVars, clip, pending, landing,
                   now>>

\* line 44: clipboard.get_text().unwrap_or(String::new())
SaveText(i) ==
    /\ pc[i] = "save_text"
    /\ \E ok \in Outcomes :
        LET r == get_text(clip[W(i)], ok) IN
        /\ Spend(i, ok)
        /\ clipboard_text' = [clipboard_text EXCEPT ![i] = unwrap_or(r, "")]
        /\ Log(i, "get_text", IsSome(r), unwrap_or(r, ""))
    /\ Goto(i, "save_image")
    /\ UNCHANGED <<time_out_ms, print_time_to_copy, clipboard_image,
                   start_time, time_out_ms_in_u128, selection_text, ret,
                   stdout, events, envVars, clip, pending, landing, now>>

\* lines 45-47: clipboard.get_image().unwrap_or(ImageData { 0, 0, [] })
SaveImage(i) ==
    /\ pc[i] = "save_image"
    /\ \E ok \in Outcomes :
        LET r == get_image(clip[W(i)], ok) IN
        /\ Spend(i, ok)
        /\ clipboard_image' =
              [clipboard_image EXCEPT ![i] = unwrap_or(r, EmptyImage)]
        /\ Log(i, "get_image", IsSome(r), "")
    /\ Goto(i, "clear")
    /\ UNCHANGED <<time_out_ms, print_time_to_copy, clipboard_text,
                   start_time, time_out_ms_in_u128, selection_text, ret,
                   stdout, events, envVars, clip, pending, landing, now>>

\* line 50: clipboard.clear().unwrap()
ClearClipboard(i) ==
    /\ pc[i] = "clear"
    /\ \E ok \in Outcomes :
        /\ Spend(i, ok)
        /\ Log(i, "clear", ok, "")
        /\ clip' = IF ok THEN [clip EXCEPT ![W(i)] = clear(@)] ELSE clip
        /\ unwrap(i, ok, copy_entry)
    /\ UNCHANGED <<callVars, events, envVars, pending, landing, now>>

\* ------------------------------------------------------ copy, not macOS
\* line 146: Enigo::new(&Settings::default()).unwrap()
EnigoNew(i) ==
    /\ pc[i] = "enigo_new"
    /\ \E ok \in Outcomes :
        /\ Spend(i, ok)
        /\ unwrap(i, ok, "ctrl_press")
    /\ UNCHANGED <<callVars, ops, events, envVars, clip, pending, landing,
                   now>>

\* line 147: enigo.key(Key::Control, Press).unwrap()
CtrlPress(i) ==
    /\ pc[i] = "ctrl_press"
    /\ \E ok \in Outcomes :
        /\ Spend(i, ok)
        /\ Post(i, IF ok THEN <<Key("Control", "Press", "Source")>> ELSE <<>>)
        /\ unwrap(i, ok, "c_click")
    /\ UNCHANGED <<callVars, ops, envVars, clip, pending, landing, now>>

\* line 148: enigo.key(Key::Unicode('c'), Click).unwrap(); a click is a
\* press followed by a release.  The focused application receives Ctrl+C.
CClick(i) ==
    /\ pc[i] = "c_click"
    /\ \E ok \in Outcomes :
        /\ Spend(i, ok)
        /\ \E d \in Dropped({"Control"}) :
              Post(i, IF ok THEN Click("c") ELSE d)
        /\ pending' = IF ok THEN [pending EXCEPT ![W(i)] = TRUE] ELSE pending
        /\ unwrap(i, ok, "ctrl_release")
    /\ UNCHANGED <<callVars, ops, envVars, clip, landing, now>>

\* line 149: enigo.key(Key::Control, Release).unwrap()
CtrlRelease(i) ==
    /\ pc[i] = "ctrl_release"
    /\ \E ok \in Outcomes :
        /\ Spend(i, ok)
        /\ \E d \in Dropped({"Control"}) :
              Post(i, IF ok THEN <<Key("Control", "Release", "Source")>>
                      ELSE d)
        /\ unwrap(i, ok, after_copy(i))
    /\ UNCHANGED <<callVars, ops, envVars, clip, pending, landing, now>>

\* ---------------------------------------------------------- copy, macOS
\* lines 118-123: 'c' key-down with the flags set to Command.
press_cmd_c_event == Key("c", "Press", "Command")
release_c_event_m == Key("c", "Release", "Command")
\* lines 126-131: 'c' key-up with the flags reset to null.
release_c_event == Key("c", "Release", "Null")
\* lines 136-140: Command key-up, flags as the event source made them.
release_cmd_event == Key("Command", "Release", "Source")

\* lines 113-116: CGEventSource::new(CombinedSessionState).unwrap()
EventSource(i) ==
    /\ pc[i] = "event_source"
    /\ \E ok \in Outcomes :
        /\ Spend(i, ok)
        /\ unwrap(i, ok, "press_cmd_c")
    /\ UNCHANGED <<callVars, ops, events, envVars, clip, pending, landing,
                   now>>

\* lines 118-124: 'c' key-down, flags set to Command, posted.  The focused
\* application receives Cmd+C.
PressCmdC(i) ==
    /\ pc[i] = "press_cmd_c"
    /\ \E ok \in Outcomes :
        /\ Spend(i, ok)
        /\ Post(i, IF ok THEN <<press_cmd_c_event>> ELSE <<>>)
        /\ pending' = IF ok THEN [pending EXCEPT ![W(i)] = TRUE] ELSE pending
        /\ unwrap(i, ok, "release_c")
    /\ UNCHANGED <<callVars, ops, envVars, clip, landing, now>>

\* lines 126-132: 'c' key-up, flags reset to null, posted.
ReleaseC(i) ==
    /\ pc[i] = "release_c"
    /\ \E ok \in Outcomes :
        /\ Spend(i, ok)
        /\ Post(i, IF ok THEN <<release_c_event>> ELSE <<>>)
        /\ unwrap(i, ok, "release_cmd")
    /\ UNCHANGED <<callVars, ops, envVars, clip, pending, landing, now>>

\* lines 136-141: Command key-up, flags left as created, posted.
ReleaseCmd(i) ==
    /\ pc[i] = "release_cmd"
    /\ \E ok \in Outcomes :
        /\ Spend(i, ok)
        /\ Post(i, IF ok THEN <<release_cmd_event>> ELSE <<>>)
        /\ unwrap(i, ok, after_copy(i))
    /\ UNCHANGED <<callVars, ops, envVars, clip, pending, landing, now>>

\* ------------------------------------------------------------------ poll
resolve_time_out_m(o) == unwrap_or(o, 0)
\* line 58: u128::from(time_out_ms.unwrap_or(DEFAULT_TIME_OUT_MS))
resolve_time_out(o) == unwrap_or(o, DEFAULT_TIME_OUT_MS)

\* lines 57-59: start_time, the resolved timeout, selection_text = "".
StartPolling(i) ==
    /\ pc[i] = "start"
    /\ start_time' = [start_time EXCEPT ![i] = now[W(i)]]
    /\ time_out_ms_in_u128' = [time_out_ms_in_u128 EXCEPT
           ![i] = resolve_time_out(time_out_ms[i])]
    /\ selection_text' = [selection_text EXCEPT ![i] = ""]
    /\ Goto(i, "loop_check")
    /\ UNCHANGED <<time_out_ms, print_time_to_copy, clipboard_text,
                   clipboard_image, ret, stdout, ops, events, envVars, clip,
                   pending, landing, now, faults>>

LoopCond_m(i) == elapsed(i) + 1 < time_out_ms_in_u128[i]
LoopCond_m2(i) == elapsed(i) <= time_out_ms_in_u128[i]
\* line 61: start_time.elapsed().as_millis() < time_out_ms_in_u128
LoopCond(i) == elapsed(i) < time_out_ms_in_u128[i]

selection_found_m(s) == FALSE
\* line 63: !selection_text.is_empty()
selection_found(s) == s # ""

\* line 61: the loop test.
LoopCheck(i) ==
    /\ pc[i] = "loop_check"
    /\ Goto(i, IF LoopCond(i) THEN "poll_read" ELSE "restore")
    /\ UNCHANGED <<callVars, ops, events, envVars, clip, pending, landing,
                   now, faults>>

\* lines 62-71: one poll read; break on non-empty text.
PollRead(i) ==
    /\ pc[i] = "poll_read"
    /\ \E ok \in Outcomes :
        LET r == get_text(clip[W(i)], ok)
            s == unwrap_or(r, "") IN
        /\ Spend(i, ok)
        /\ selection_text' = [selection_text EXCEPT ![i] = s]
        /\ Log(i, "get_text", IsSome(r), s)
        /\ stdout' = IF selection_found(s)
                        /\ unwrap_or(print_time_to_copy[i], FALSE)
                     THEN [stdout EXCEPT ![i] = Append(@, elapsed(i))]
                     ELSE stdout
        /\ Goto(i, IF selection_found(s) THEN "restore" ELSE "sleep")
    /\ UNCHANGED <<time_out_ms, print_time_to_copy, clipboard_text,
                   clipboard_image, start_time, time_out_ms_in_u128, ret,
                   events, envVars, clip, pending, landing, now>>

\* A sleep that never returns.
Sleep_m(i) == pc[i] = "sleep" /\ UNCHANGED vars
\* line 72: thread::sleep(Duration::from_millis(1))
Sleep(i) ==
    /\ pc[i] = "sleep"
    /\ now' = [now EXCEPT ![W(i)] = @ + SLEEP_MS]
    /\ Goto(i, "loop_check")
    /\ UNCHANGED <<callVars, ops, events, envVars, clip, pending, landing,
                   faults>>

\* --------------------------------------------------------------- restore
should_restore_clipboard_text_m(i) == clipboard_text[i] = ""
should_restore_clipboard_text_m2(i) == TRUE
should_restore_clipboard_text_m3(i) ==
    clipboard_text[i] # "" /\ clipboard_image[i].width = 0
\* line 76: !clipboard_text.is_empty()
should_restore_clipboard_text(i) == clipboard_text[i] # ""
should_restore_clipboard_image_m(i) == clipboard_image[i].width > 1
should_restore_clipboard_image_m2(i) == clipboard_image[i].width >= 0
\* line 77: clipboard_image.width > 0
should_restore_clipboard_image(i) == clipboard_image[i].width > 0

\* lines 76-82: write back the saved text, else the saved image, else
\* nothing; both writes are unwrapped.
Restore(i) ==
    /\ pc[i] = "restore"
    /\ IF should_restore_clipboard_text(i)
       THEN \E ok \in Outcomes :
              /\ Spend(i, ok)
              /\ Log(i, "set_text", ok, clipboard_text[i])
              /\ clip' = IF ok
                         THEN [clip EXCEPT
                                 ![W(i)] = set_text(@, clipboard_text[i])]
                         ELSE clip
              /\ unwrap(i, ok, "return")
       ELSE IF should_restore_clipboard_image(i)
       THEN \E ok \in Outcomes :
              /\ Spend(i, ok)
              /\ Log(i, "set_image", ok, "")
              /\ clip' = IF ok
                         THEN [clip EXCEPT
                                 ![W(i)] = set_image(@, clipboard_image[i])]
                         ELSE clip
              /\ unwrap(i, ok, "return")
       ELSE /\ Goto(i, "return")
            /\ UNCHANGED <<ops, clip, faults>>
    /\ UNCHANGED <<callVars, events, envVars, pending, landing, now>>

\* line 85: return selection_text
Return(i) ==
    /\ pc[i] = "return"
    /\ ret' = [ret EXCEPT ![i] = Some(selection_text[i])]
    /\ Goto(i, "done")
    /\ UNCHANGED <<time_out_ms, print_time_to_copy, clipboard_text,
                   clipboard_image, start_time, time_out_ms_in_u128,
                   selection_text, stdout, ops, events, envVars, clip,
                   pending, landing, now, faults>>

\* ------------------------------------------------------- the environment
\* The target application of each world in ws answers the copy chord: it
\* writes its selection to the clipboard.  An application without a
\* selection writes nothing.
AppCopy(ws) ==
    /\ ws # {}
    /\ \A w \in ws : pending[w] /\ IsSome(sel[w])
    /\ clip' = [w \in Worlds |->
                  IF w \in ws THEN set_text(clip[w], sel[w][1]) ELSE clip[w]]
    /\ pending' = [w \in Worlds |-> IF w \in ws THEN FALSE ELSE pending[w]]
    /\ landing' = [w \in Worlds |->
                     IF w \in ws THEN Some([t |-> now[w], pcs |-> pc])
                     ELSE landing[w]]
    /\ UNCHANGED <<pc, callVars, ops, events, envVars, now, faults, path>>

CallStep(i) ==
    \/ ClipboardNew(i) \/ SaveText(i) \/ SaveImage(i) \/ ClearClipboard(i)
    \/ EnigoNew(i) \/ CtrlPress(i) \/ CClick(i) \/ CtrlRelease(i)
    \/ EventSource(i) \/ PressCmdC(i) \/ ReleaseC(i) \/ ReleaseCmd(i)
    \/ StartPolling(i) \/ LoopCheck(i) \/ PollRead(i) \/ Sleep(i)
    \/ Restore(i) \/ Return(i)

\* ------------------------------------------------------- initial states
InitCalls ==
    /\ clipboard_text = [i \in Calls |-> ""]
    /\ clipboard_image = [i \in Calls |-> EmptyImage]
    /\ start_time = [i \in Calls |-> 0]
    /\ time_out_ms_in_u128 = [i \in Calls |-> 0]
    /\ selection_text = [i \in Calls |-> ""]
    /\ ret = [i \in Calls |-> None]
    /\ ops = [i \in Calls |-> <<>>]
    /\ events = [i \in Calls |-> <<>>]
    /\ stdout = [i \in Calls |-> <<>>]
    /\ faults = [i \in Calls |-> <<>>]
    /\ path = [i \in Calls |-> <<>>]
    /\ pending = [w \in Worlds |-> FALSE]
    /\ landing = [w \in Worlds |-> None]
    /\ now = [w \in Worlds |-> 0]
    /\ platform \in {"macos", "other"}

\* One call in world 1, of get_selection_text or of copy alone; call 2 is
\* never made.
Init ==
    /\ InitCalls
    /\ world = [i \in Calls |-> i]
    /\ \E c \in ClipStates, s \in {None} \cup {Some(x) : x \in Selections} :
          /\ clip = [w \in Worlds |-> IF w = 1 THEN c ELSE EmptyClip]
          /\ sel = [w \in Worlds |-> IF w = 1 THEN s ELSE None]
    /\ pre = clip
    /\ budget = MaxFaults
    /\ \/ /\ fn = [i \in Calls |-> "get_selection_text"]
          /\ pc = [i \in Calls |-> IF i = 1 THEN "clipboard_new" ELSE "idle"]
          /\ \E t \in TimeOutInputs, p \in {None, Some(TRUE)} :
                /\ time_out_ms = [i \in Calls |-> IF i = 1 THEN t ELSE None]
                /\ print_time_to_copy =
                      [i \in Calls |-> IF i = 1 THEN p ELSE None]
       \/ /\ fn = [i \in Calls |->
                     IF i = 1 THEN "copy" ELSE "get_selection_text"]
          /\ pc = [i \in Calls |-> IF i = 1 THEN copy_entry ELSE "idle"]
          /\ time_out_ms = [i \in Calls |-> None]
          /\ print_time_to_copy = [i \in Calls |-> None]

Next ==
    \/ \E i \in Calls : CallStep(i)
    \/ \E w \in Worlds : AppCopy({w})

Spec == Init /\ [][Next]_vars

\* The thread that runs a call is always scheduled again and its sleep
\* always ends: a call that can take a step eventually takes one.  Nothing
\* is assumed about the target application.
LiveSpec == Spec /\ \A i \in Calls : WF_vars(CallStep(i))

\* ------------------------------------------------------- the paired runs
\* Two calls in two identical desktop sessions, call 1 without a timeout
\* argument and call 2 with the documented default passed explicitly.  The
\* calls advance in lockstep and the two applications answer the copy chord
\* at the same moment, so both calls meet the same environment schedule.
InitDefault ==
    /\ InitCalls
    /\ pc = [i \in Calls |-> "clipboard_new"]
    /\ fn = [i \in Calls |-> "get_selection_text"]
    /\ world = [i \in Calls |-> i]
    /\ time_out_ms = [i \in Calls |->
                        IF i = 1 THEN None ELSE Some(DocumentedDefaultMs)]
    /\ \E p \in {None, Some(TRUE)} : print_time_to_copy = [i \in Calls |-> p]
    /\ \E c \in ClipStates, s \in {None} \cup {Some(x) : x \in Selections} :
          /\ clip = [w \in Worlds |-> c]
          /\ sel = [w \in Worlds |-> s]
    /\ pre = clip
    /\ budget = 0

\* Call 1 leads and call 2 follows: call 1 takes a step when both calls
\* are at the same statement, call 2 when it is behind.
Synced == pc[1] = pc[2]
InStep(i) == IF i = 1 THEN Synced ELSE ~Synced

AppCopyBoth ==
    /\ Synced
    /\ elapsed(1) = elapsed(2)
    /\ AppCopy(Worlds)

NextDefault ==
    \/ \E i \in Calls : InStep(i) /\ ClipboardNew(i)
    \/ \E i \in Calls : InStep(i) /\ SaveText(i)
    \/ \E i \in Calls : InStep(i) /\ SaveImage(i)
    \/ \E i \in Calls : InStep(i) /\ ClearClipboard(i)
    \/ \E i \in Calls : InStep(i) /\ EnigoNew(i)
    \/ \E i \in Calls : InStep(i) /\ CtrlPress(i)
    \/ \E i \in Calls : InStep(i) /\ CClick(i)
    \/ \E i \in Calls : InStep(i) /\ CtrlRelease(i)
    \/ \E i \in Calls : InStep(i) /\ EventSource(i)
    \/ \E i \in Calls : InStep(i) /\ PressCmdC(i)
    \/ \E i \in Calls : InStep(i) /\ ReleaseC(i)
    \/ \E i \in Calls : InStep(i) /\ ReleaseCmd(i)
    \/ \E i \in Calls : InStep(i) /\ StartPolling(i)
    \/ \E i \in Calls : InStep(i) /\ LoopCheck(i)
    \/ \E i \in Calls : InStep(i) /\ PollRead(i)
    \/ \E i \in Calls : InStep(i) /\ Sleep(i)
    \/ \E i \in Calls : InStep(i) /\ Restore(i)
    \/ \E i \in Calls : InStep(i) /\ Return(i)
    \/ AppCopyBoth

SpecDefault == InitDefault /\ [][NextDefault]_vars

\* ------------------------------------------------ overlapping invocations
\* Two calls in the same desktop session, started together and interleaved
\* freely: the code takes no lock on the clipboard or the keyboard.
InitOverlap ==
    /\ InitCalls
    /\ pc = [i \in Calls |-> "clipboard_new"]
    /\ fn = [i \in Calls |-> "get_selection_text"]
    /\ world = [i \in Calls |-> 1]
    /\ \E t1, t2 \in {Some(t) : t \in 1..2} :
          time_out_ms = [i \in Calls |-> IF i = 1 THEN t1 ELSE t2]
    /\ print_time_to_copy = [i \in Calls |-> None]
    /\ \E c \in {x \in ClipStates : ~IsSome(x.image)},
          s \in {None} \cup {Some(x) : x \in Selections} :
          /\ clip = [w \in Worlds |-> IF w = 1 THEN c ELSE EmptyClip]
          /\ sel = [w \in Worlds |-> IF w = 1 THEN s ELSE None]
    /\ pre = clip
    /\ budget = 0

SpecOverlap == InitOverlap /\ [][Next]_vars

\* ======================================================== properties
Done(i) == pc[i] = "done"
Panicked(i) == pc[i] = "panicked"
NoFault(i) == faults[i] = <<>>
NoCopyLanded(i) == landing[W(i)] = None
Timeout(i) == time_out_ms_in_u128[i]
Wrote(i) == \E k \in 1..Len(ops[i]) : ops[i][k].op \in {"set_text", "set_image"}
PollReads(i) ==
    Cardinality({k \in 1..Len(ops[i]) : k > 3 /\ ops[i][k].op = "get_text"})
TextOnly(c) == IsSome(c.text) /\ ~IsSome(c.image)
ImageOnly(c) == ~IsSome(c.text) /\ IsSome(c.image)

\* C1: a call that returns after no copy landed and no clipboard operation
\* failed, started on a clipboard holding the non-empty text T, leaves the
\* clipboard text equal to T and returns the empty string.
C1_TextRestoredNoSelection ==
    \A i \in Calls :
        (Done(i) /\ IsSome(pre[W(i)].text) /\ NoCopyLanded(i) /\ NoFault(i))
            => /\ clip[W(i)].text = pre[W(i)].text
               /\ ret[i] = Some("")

C1_Witness ==
    /\ Done(1) /\ IsSome(pre[1].text) /\ NoCopyLanded(1) /\ NoFault(1)
    /\ sel[1] = None /\ Timeout(1) = 2 /\ PollReads(1) = 2
    /\ clip[1].text = Some("T") /\ ret[1] = Some("")

\* The application's copy landed at a moment before the timeout had elapsed
\* since the start of polling: during the poll loop at an elapsed time below
\* the timeout (a landing at pc "sleep" is a landing during that sleep), or
\* before polling started when the timeout is positive.
LandedInWindow(i) ==
    /\ IsSome(landing[W(i)])
    /\ LET l == landing[W(i)][1] IN
         \/ /\ l.pcs[i] \in {"loop_check", "poll_read", "sleep"}
            /\ l.t - start_time[i] < Timeout(i)
         \/ /\ l.pcs[i] \in {"ctrl_release", "release_c", "release_cmd",
                             "start"}
            /\ Timeout(i) > 0

\* C2: a call whose target application's copy of the selection S landed
\* before the timeout had elapsed since the start of polling returns S.
C2_ReturnsSelectionLandedInWindow ==
    \A i \in Calls :
        (Done(i) /\ LandedInWindow(i) /\ NoFault(i)) => ret[i] = sel[W(i)]

\* C3: after a call that captured the selection S, the clipboard equals its
\* pre-call contents (text only, image only, or empty) and does not hold S.
C3_ClipboardRestoredAfterCapture ==
    \A i \in Calls :
        (/\ Done(i) /\ NoFault(i)
         /\ IsSome(sel[W(i)]) /\ ret[i] = sel[W(i)]
         /\ (TextOnly(pre[W(i)]) \/ ImageOnly(pre[W(i)])
                \/ pre[W(i)] = EmptyClip))
            => /\ clip[W(i)] = pre[W(i)]
               /\ clip[W(i)].text # sel[W(i)]

\* C4: when no copy lands, the poll loop is left only once the timeout has
\* elapsed since polling started and no later than one polling interval
\* after it, and the captured text is empty.
C4_TimeoutBoundary ==
    \A i \in Calls :
        (pc[i] \in {"restore", "return", "done"} /\ NoCopyLanded(i))
            => /\ elapsed(i) >= Timeout(i)
               /\ elapsed(i) <= Timeout(i) + SLEEP_MS
               /\ selection_text[i] = ""
               /\ (Done(i) => ret[i] = Some(""))

C4_Witness ==
    /\ Done(1) /\ NoCopyLanded(1) /\ Timeout(1) = 3 /\ elapsed(1) = 3
    /\ PollReads(1) = 3 /\ ret[1] = Some("")

\* C5: a call that returns after no copy landed and no clipboard operation
\* failed, started on a clipboard holding only an image of non-zero width,
\* leaves the clipboard holding that same image.
C5_ImageRestoredNoSelection ==
    \A i \in Calls :
        (/\ Done(i) /\ ImageOnly(pre[W(i)]) /\ pre[W(i)].image[1].width > 0
         /\ NoCopyLanded(i) /\ NoFault(i))
            => clip[W(i)] = pre[W(i)]

C5_Witness ==
    /\ Done(1) /\ pre[1] = [text |-> None, image |-> Some(Image1)]
    /\ NoCopyLanded(1) /\ NoFault(1) /\ clip[1] = pre[1]
    /\ \E k \in 1..Len(ops[1]) : ops[1][k].op = "set_image" /\ ops[1][k].ok

\* C6: a call started on an empty clipboard with no selection in the target
\* application performs no set_text and no set_image and leaves the
\* clipboard empty.
C6_EmptyStartNoWrite ==
    \A i \in Calls :
        (pre[W(i)] = EmptyClip /\ sel[W(i)] = None)
            => /\ ~Wrote(i)
               /\ clip[W(i)] = EmptyClip

C6_Witness ==
    /\ Done(1) /\ pre[1] = EmptyClip /\ sel[1] = None /\ Timeout(1) > 0
    /\ ~Wrote(1) /\ clip[1] = EmptyClip /\ ret[1] = Some("")

ClipboardIOSteps == {"save_text", "save_image", "clear", "poll_read", "restore"}
FatalSteps == {"clipboard_new", "enigo_new", "ctrl_press", "c_click",
               "ctrl_release", "event_source", "press_cmd_c", "release_c",
               "release_cmd"}
FailedAt(i, steps) == \E k \in 1..Len(faults[i]) : faults[i][k] \in steps

\* C7: a failure of a clipboard read or write inside the call (step-1
\* get_text or get_image, the clear, a poll read, the restoring write) never
\* aborts the call.
C7_ClipboardFailureNeverAborts ==
    \A i \in Calls : FailedAt(i, ClipboardIOSteps) => ~Panicked(i)

\* C8: after a fatal failure (clipboard handle, input-injection handle, or
\* an input event) the call is aborted: it returns nothing, has made no poll
\* read and no restoring write, and posted no event after the failed one;
\* when the clipboard handle failed the clipboard is as before the call.
C8_FatalAborts ==
    \A i \in Calls :
        FailedAt(i, FatalSteps)
            => /\ Panicked(i)
               /\ ret[i] = None
               /\ ~Wrote(i)
               /\ PollReads(i) = 0
               /\ faults[i][Len(faults[i])] \in FatalSteps
               /\ faults[i][Len(faults[i])] = "clipboard_new"
                     => ops[i] = <<>> /\ events[i] = <<>>
                        /\ clip[W(i)] = pre[W(i)]
               /\ faults[i][Len(faults[i])] \in {"enigo_new", "ctrl_press",
                                                 "event_source", "press_cmd_c"}
                     => events[i] = <<>> /\ ~pending[W(i)]

C8_Witness ==
    /\ Panicked(1) /\ faults[1] = <<"c_click">> /\ IsSome(pre[1].text)
    /\ clip[1] = EmptyClip /\ ret[1] = None /\ Len(ops[1]) = 3
    /\ events[1] = <<Key("Control", "Press", "Source")>>

\* C9: a call without a timeout argument and a call given the documented
\* default of 80 ms, run against the same pre-call clipboard and the same
\* landing moment, perform the same clipboard operations and key events,
\* print the same, leave the same clipboard and return the same string.
C9_DefaultEquivalence ==
    Synced
        => /\ time_out_ms_in_u128[1] = time_out_ms_in_u128[2]
           /\ ops[1] = ops[2]
           /\ events[1] = events[2]
           /\ stdout[1] = stdout[2]
           /\ selection_text[1] = selection_text[2]
           /\ ret[1] = ret[2]
           /\ clip[1] = clip[2]
           /\ elapsed(1) = elapsed(2)

C9_Witness ==
    /\ Done(1) /\ Done(2)
    /\ time_out_ms[1] = None /\ time_out_ms[2] = Some(80)
    /\ PollReads(1) = 80 /\ PollReads(2) = 80
    /\ ret[1] = Some("S") /\ ret[2] = Some("S")

SingleFormat(c) == TextOnly(c) \/ ImageOnly(c) \/ c = EmptyClip
LandedWhilePolling(i) ==
    IsSome(landing[W(i)])
        => landing[W(i)][1].pcs[i] \notin {"restore", "return", "done"}
Corrupted(i) ==
    \/ ret[i] \notin {Some(""), sel[W(i)]}
    \/ clip[W(i)] # pre[W(i)]

\* C10: with invocations serialized (one call, nothing else in flight), no
\* finished call has returned text that was never a selection, and the
\* clipboard after the call equals the clipboard before it.
C10_SerializedNoCorruption ==
    \A i \in Calls :
        (/\ Done(i) /\ NoFault(i) /\ SingleFormat(pre[W(i)])
         /\ LandedWhilePolling(i))
            => ~Corrupted(i)

\* C10, overlapping half: the same statement for two interleaved calls; its
\* violation under SpecOverlap is the corrupting interleaving.
C10_OverlapNoStaleReturn ==
    \A i \in Calls : Done(i) => ret[i] \in {Some(""), sel[W(i)]}

\* ------------------------------------------------ order of the steps
Gst(i) == fn[i] = "get_selection_text"
InPath(i, l) == \E k \in 1..Len(path[i]) : path[i][k] = l
Visited(i) == path[i] \o <<pc[i]>>
CopyReturned(i) == pc[i] \in {"start", "copied"} \/ InPath(i, "start")
PollIdx(i) == {k \in 1..Len(ops[i]) : k > 3 /\ ops[i][k].op = "get_text"}
WriteIdx(i) ==
    {k \in 1..Len(ops[i]) : ops[i][k].op \in {"set_text", "set_image"}}
Count(sq, l) == Cardinality({k \in 1..Len(sq) : sq[k] = l})

\* C11: a copy that returned on the generic platform has injected exactly
\* Control press, 'c' press, 'c' release, Control release, in that order.
C11_GenericChord ==
    \A i \in Calls :
        (platform = "other" /\ CopyReturned(i))
            => events[i] = <<Key("Control", "Press", "Source"),
                             Key("c", "Press", "Source"),
                             Key("c", "Release", "Source"),
                             Key("Control", "Release", "Source")>>

C11_Witness ==
    /\ platform = "other" /\ fn[1] = "copy" /\ pc[1] = "copied"
    /\ Len(events[1]) = 4 /\ events[1][4] = Key("Control", "Release", "Source")
    /\ IsSome(landing[1])

\* The place of each statement in the protocol; the three statements of
\* the poll loop share a place.
Rank(l) ==
    CASE l = "clipboard_new" -> 1
      [] l = "save_text" -> 2
      [] l = "save_image" -> 3
      [] l = "clear" -> 4
      [] l \in {"enigo_new", "event_source"} -> 5
      [] l \in {"ctrl_press", "press_cmd_c"} -> 6
      [] l \in {"c_click", "release_c"} -> 7
      [] l \in {"ctrl_release", "release_cmd"} -> 8
      [] l = "start" -> 9
      [] l \in {"loop_check", "poll_read", "sleep"} -> 10
      [] l = "restore" -> 11
      [] l = "return" -> 12
      [] l = "done" -> 13
      [] OTHER -> 14

\* C12: every step of a call moves forward in the fixed order read text,
\* read image, clear, copy trigger, poll, restore, return, and only the poll
\* loop is re-entered; each clipboard operation is performed by its own
\* step (get_text by the text read and the poll reads, get_image by the
\* image read, clear by the clear, a write by the restore, one at most) and
\* key events are injected only by the copy trigger.
C12_FixedStepOrder ==
    [][\A i \in Calls :
          Gst(i) =>
            /\ path'[i] # path[i] =>
                  \/ Rank(pc[i]) < Rank(pc'[i])
                  \/ Rank(pc[i]) = 10 /\ Rank(pc'[i]) = 10
            /\ ops'[i] # ops[i] =>
                  /\ path'[i] # path[i]
                  /\ Len(ops'[i]) = Len(ops[i]) + 1
                  /\ LET o == ops'[i][Len(ops'[i])].op IN
                       \/ o = "get_text" /\ pc[i] \in {"save_text", "poll_read"}
                       \/ o = "get_image" /\ pc[i] = "save_image"
                       \/ o = "clear" /\ pc[i] = "clear"
                       \/ o \in {"set_text", "set_image"} /\ pc[i] = "restore"
            /\ events'[i] # events[i] =>
                  /\ path'[i] # path[i]
                  /\ Rank(pc[i]) \in 6..8
            /\ pending'[W(i)] /\ ~pending[W(i)] =>
                  pc[i] \in {"c_click", "press_cmd_c"}]_vars

C12_Witness ==
    /\ Gst(1) /\ Done(1) /\ Cardinality(PollIdx(1)) = 3 /\ WriteIdx(1) # {}
    /\ ret[1] = Some("S") /\ Count(path[1], "sleep") = 2

\* C13: the restore step writes the saved text when it is non-empty, even
\* if an image was saved as well; otherwise the saved image when its width
\* is positive; otherwise nothing.  It performs at most one write, and a
\* successful write makes the clipboard hold exactly what was written.
C13_RestorePriority ==
    [][\A i \in Calls :
          (pc[i] = "restore" /\ pc'[i] # "restore")
            => LET new == SubSeq(ops'[i], Len(ops[i]) + 1, Len(ops'[i])) IN
               IF clipboard_text[i] # ""
               THEN /\ Len(new) = 1
                    /\ new[1].op = "set_text"
                    /\ new[1].val = clipboard_text[i]
                    /\ clip'[W(i)] =
                         IF new[1].ok
                         THEN [text |-> Some(clipboard_text[i]), image |-> None]
                         ELSE clip[W(i)]
               ELSE IF clipboard_image[i].width > 0
               THEN /\ Len(new) = 1
                    /\ new[1].op = "set_image"
                    /\ clip'[W(i)] =
                         IF new[1].ok
                         THEN [text |-> None, image |-> Some(clipboard_image[i])]
                         ELSE clip[W(i)]
               ELSE new = <<>> /\ clip'[W(i)] = clip[W(i)]]_vars

C13_Witness ==
    /\ Done(1) /\ NoFault(1)
    /\ pre[1] = [text |-> Some("T"), image |-> Some(Image2)]
    /\ clipboard_image[1] = Image2
    /\ Cardinality(WriteIdx(1)) = 1
    /\ ops[1][Len(ops[1])].op = "set_text"
    /\ clip[1] = [text |-> Some("T"), image |-> None]

\* C14: a poll read that returns non-empty text is the last poll read and
\* ends the loop; a finished call returns the value of that read, and
\* returns the empty string exactly when no poll read returned text.
C14_FirstNonEmptyReadWins ==
    \A i \in Calls :
        Gst(i) =>
          LET hits == {k \in PollIdx(i) : ops[i][k].val # ""} IN
          /\ \A k \in hits : \A j \in PollIdx(i) : j <= k
          /\ hits # {} => pc[i] \in {"restore", "return", "done", "panicked"}
          /\ Done(i) =>
                /\ \A k \in hits : ret[i] = Some(ops[i][k].val)
                /\ hits = {} <=> ret[i] = Some("")

C14_Witness ==
    /\ Gst(1) /\ Done(1) /\ Cardinality(PollIdx(1)) = 3
    /\ ops[1][4].val = "" /\ ops[1][5].val = "" /\ ops[1][6].val = "S"
    /\ ret[1] = Some("S")

\* C15: a finished call that saved neither text nor an image of positive
\* width has written nothing and cleared once; the clipboard then holds the
\* selection if the application's copy landed and is empty otherwise.
C15_NothingSavedNothingRestored ==
    \A i \in Calls :
        (Gst(i) /\ Done(i) /\ clipboard_text[i] = ""
                /\ clipboard_image[i].width = 0)
            => /\ WriteIdx(i) = {}
               /\ Cardinality({k \in 1..Len(ops[i]) :
                                  ops[i][k].op = "clear"}) = 1
               /\ clip[W(i)] = IF IsSome(landing[W(i)])
                               THEN [text |-> sel[W(i)], image |-> None]
                               ELSE EmptyClip

C15_Witness ==
    /\ Gst(1) /\ Done(1) /\ pre[1] = EmptyClip /\ NoFault(1)
    /\ ret[1] = Some("S") /\ WriteIdx(1) = {}
    /\ clip[1] = [text |-> Some("S"), image |-> None]

\* C16: while a call polls, the clipboard holds nothing but what the target
\* application wrote after the clear; a non-empty returned string is the
\* selection, written by the application after the clear of this call.
C16_NoStaleContent ==
    \A i \in Calls :
        Gst(i) =>
          /\ pc[i] \in {"start", "loop_check", "poll_read", "sleep"}
                => \/ clip[W(i)] = EmptyClip
                   \/ /\ IsSome(landing[W(i)])
                      /\ clip[W(i)] = [text |-> sel[W(i)], image |-> None]
          /\ (IsSome(ret[i]) /\ ret[i] # Some(""))
                => /\ IsSome(landing[W(i)])
                   /\ ret[i] = sel[W(i)]
                   /\ ret[i] # pre[W(i)].text
                   /\ Rank(landing[W(i)][1].pcs[i]) > 4

C16_Witness ==
    /\ Gst(1) /\ Done(1) /\ pre[1] = [text |-> Some("T"), image |-> None]
    /\ ret[1] = Some("S") /\ Cardinality(PollIdx(1)) = 2

Ended(i) == pc[i] \in {"idle", "done", "copied", "panicked"}

\* C17: every call eventually ends, by returning or by a fatal abort.
C17_CallTerminates == <>(\A i \in Calls : Ended(i))

C17_Witness ==
    /\ Gst(1) /\ Done(1) /\ time_out_ms[1] = None /\ NoCopyLanded(1)
    /\ Cardinality(PollIdx(1)) = DEFAULT_TIME_OUT_MS /\ ret[1] = Some("")

\* C18: a copy that returned on macOS has posted exactly 'c' key-down with
\* the Command flag, 'c' key-up with null flags, Command key-up, in that
\* order; only the first event carries the Command flag.
C18_MacChord ==
    \A i \in Calls :
        platform = "macos" =>
          /\ CopyReturned(i)
                => events[i] = <<Key("c", "Press", "Command"),
                                 Key("c", "Release", "Null"),
                                 Key("Command", "Release", "Source")>>
          /\ \A k \in 1..Len(events[i]) :
                events[i][k].flags = "Command" <=> k = 1

C18_Witness ==
    /\ platform = "macos" /\ fn[1] = "copy" /\ pc[1] = "copied"
    /\ Len(events[1]) = 3 /\ events[1][3].key = "Command"

\* C19: a call with a timeout of 0 makes no poll read; when it finishes it
\* has run the restore step and returns the empty string, also when the
\* application's copy had landed before the loop test.
C19_ZeroTimeoutNoPoll ==
    \A i \in Calls :
        (Gst(i) /\ time_out_ms[i] = Some(0))
            => /\ PollIdx(i) = {}
               /\ ~InPath(i, "poll_read") /\ pc[i] # "poll_read"
               /\ Done(i) =>
                     /\ ret[i] = Some("")
                     /\ InPath(i, "restore")
                     /\ clipboard_text[i] # "" =>
                           ops[i][Len(ops[i])].op = "set_text"

C19_Witness ==
    /\ Gst(1) /\ Done(1) /\ time_out_ms[1] = Some(0) /\ NoFault(1)
    /\ IsSome(landing[1]) /\ Rank(landing[1][1].pcs[1]) \in 8..10
    /\ pre[1] = [text |-> Some("T"), image |-> None]
    /\ ret[1] = Some("") /\ clip[1] = pre[1]

CopySteps == {"enigo_new", "ctrl_press", "c_click", "ctrl_release",
              "event_source", "press_cmd_c", "release_c", "release_cmd"}
CopyAborted(i) ==
    /\ Panicked(i)
    /\ Len(faults[i]) > 0
    /\ faults[i][Len(faults[i])] \in CopySteps
Modifiers == {"Control", "Command"}

\* C20: when a copy has ended, by returning or by aborting on a failed
\* injection step, every modifier press it injected is followed by a
\* release of that modifier.
C20_ModifierReleased ==
    \A i \in Calls :
        (CopyReturned(i) \/ CopyAborted(i))
            => \A k \in 1..Len(events[i]) :
                  (events[i][k].key \in Modifiers /\ events[i][k].dir = "Press")
                     => \E j \in (k + 1)..Len(events[i]) :
                           /\ events[i][j].key = events[i][k].key
                           /\ events[i][j].dir = "Release"

====
